---- MODULE Spec2Model ----
(***************************************************************************)
(* The catalog applier of mcm (exec/execlib/execlib.go): Applier.Apply     *)
(* builds a dependency graph from a catalog and applies its resources one  *)
(* at a time through an injected System, skipping the descendants of a     *)
(* failed resource.  The depgraph package and the System implementation    *)
(* are modelled from their contracts; the driver and the executors are     *)
(* modelled from execlib.go.                                               *)
(***************************************************************************)
EXTENDS Integers, Sequences, FiniteSets, TLC

\* Largest number of resources in a graph-shaped catalog.
MaxRes == 3
\* Largest number of file resources in a file catalog.
MaxFileRes == 2
\* Number of Apply calls the caller makes in a row.
MaxRuns == 2
\* Largest number of resources in a catalog of the fair specification.
MaxFairRes == 2

VARIABLES
    catalog,    \* the catalog handed to Apply: a sequence of resources
    fs,         \* the host the System acts on
    fs0,        \* the host as it was when the current/last Apply began
    cancelled,  \* ctx.Done() of the current Apply's context is closed
    pc,         \* "idle": no Apply in progress; "loop": at the loop head of applyCatalog
    g,          \* the depgraph.Graph of the Apply in progress
    ok,         \* applyCatalog's local flag
    trace,      \* Logger, applyResource and System calls of the Apply in progress, in order
    last,       \* the Apply that returned last, until the next one begins
    before,     \* what the Apply before the current (or last) one returned, "" if none
    runs        \* the number of Apply calls made

vars == <<catalog, fs, fs0, cancelled, pc, g, ok, trace, last, before, runs>>

----------------------------------------------------------------------------
(* Paths and strings.  A path is a sequence of segments; an absolute path  *)
(* starts with the segment "/".                                            *)

IsAbs(p) == Len(p) > 0 /\ p[1] = "/"

ThePath == <<"/", "p">>
EmptyPath == <<>>
LocalRoot == <<"/">>

RECURSIVE SetToSeq(_)
SetToSeq(S) ==
    IF S = {} THEN <<>>
    ELSE LET m == CHOOSE x \in S : \A y \in S : x <= y
         IN  <<m>> \o SetToSeq(S \ {m})

----------------------------------------------------------------------------
(* The System: one filesystem entry at ThePath and a process runner.       *)
(* fs.ent is the entry: its kind is "absent", "file", "dir" or "symlink"   *)
(* (with the link's target); fs.ro says that the parent directory refuses  *)
(* changes (permission denied).                                            *)

Targets == {"a", "b"}
Entry(k, t) == [kind |-> k, target |-> t]
Absent == Entry("absent", "")
Entries == {Absent, Entry("file", ""), Entry("dir", "")}
               \cup {Entry("symlink", t) : t \in Targets}

\* A System call's answer: err is "" (nil) or the error's kind.
Ans(e, f, v) == [err |-> e, fs |-> f, val |-> v]

SysLstat(f, path) ==
    IF path # ThePath \/ f.ent = Absent THEN Ans("notexist", f, "")
    ELSE Ans("", f, f.ent.kind)

SysMkdir(f, path) ==
    IF path # ThePath THEN Ans("notexist", f, "")
    ELSE IF f.ent # Absent THEN Ans("exist", f, "")
    ELSE IF f.ro THEN Ans("permission", f, "")
    ELSE Ans("", [f EXCEPT !.ent = Entry("dir", "")], "")

SysSymlink(f, target, path) ==
    IF path # ThePath THEN Ans("notexist", f, "")
    ELSE IF f.ent # Absent THEN Ans("exist", f, "")
    ELSE IF f.ro THEN Ans("permission", f, "")
    ELSE Ans("", [f EXCEPT !.ent = Entry("symlink", target)], "")

SysReadlink(f, path) ==
    IF path # ThePath \/ f.ent = Absent THEN Ans("notexist", f, "")
    ELSE IF f.ent.kind # "symlink" THEN Ans("invalid", f, "")
    ELSE Ans("", f, f.ent.target)

SysRemove(f, path) ==
    IF path # ThePath \/ f.ent = Absent THEN Ans("notexist", f, "")
    ELSE IF f.ro THEN Ans("permission", f, "")
    ELSE Ans("", [f EXCEPT !.ent = Absent], "")

SysWriteFile(f, path) ==
    IF path # ThePath THEN Ans("notexist", f, "")
    ELSE IF f.ro THEN Ans("permission", f, "")
    ELSE IF f.ent.kind = "dir" THEN Ans("isdir", f, "")
    ELSE Ans("", [f EXCEPT !.ent = Entry("file", "")], "")

BinTrue == <<"/", "bin/true">>
BinFalse == <<"/", "bin/false">>

\* Run: the exit status is the program's; a program that is not there cannot
\* be spawned.
SysRun(f, cmd) ==
    IF cmd.Path = BinTrue THEN Ans("", f, "")
    ELSE IF cmd.Path = BinFalse THEN Ans("ExitError", f, "")
    ELSE Ans("spawn", f, "")

WriteCalls == {"WriteFile", "Mkdir", "Symlink", "Remove"}
SystemCalls == WriteCalls \cup {"Lstat", "Readlink", "Run"}

----------------------------------------------------------------------------
(* depgraph: the dependency graph.                                         *)

RECURSIVE Closure(_, _)
Closure(deps, S) ==
    LET T == S \cup UNION {deps[x] : x \in S}
    IN  IF T = S THEN S ELSE Closure(deps, T)

\* The transitive dependencies of id.
Ancestors(deps, id) == Closure(deps, deps[id])

\* depgraph.New: a graph, or a construction error.
New(res) ==
    LET ids == {res[i].id : i \in DOMAIN res}
        at(id) == CHOOSE i \in DOMAIN res : res[i].id = id
        deps == [id \in ids |-> res[at(id)].deps]
    IN  IF \E i \in DOMAIN res : res[i].id = 0 THEN [err |-> "ZeroID"]
        ELSE IF \E i, j \in DOMAIN res : i # j /\ res[i].id = res[j].id
            THEN [err |-> "DuplicateID"]
        ELSE IF \E id \in ids : ~(deps[id] \subseteq ids) THEN [err |-> "MissingDep"]
        ELSE IF \E id \in ids : id \in Ancestors(deps, id) THEN [err |-> "Cycle"]
        ELSE [err |-> "", ids |-> ids, deps |-> deps,
              order |-> [i \in DOMAIN res |-> res[i].id],
              res |-> [id \in ids |-> res[at(id)]],
              status |-> [id \in ids |-> "pending"]]

NoGraph == [err |-> "none"]

\* No Apply has returned since the last one began.
NoRecord == [ret |-> ""]

Done(gr) == \A id \in gr.ids : gr.status[id] # "pending"

Ready(gr) ==
    SetToSeq({id \in gr.ids : /\ gr.status[id] = "pending"
                              /\ \A d \in gr.deps[id] : gr.status[d] = "done"})

Mark(gr, n) == [gr EXCEPT !.status[n] = "done"]

Descendants(gr, n) == {x \in gr.ids : n \in Ancestors(gr.deps, x)}

MarkFailure(gr, n) ==
    LET fresh == {x \in Descendants(gr, n) : gr.status[x] = "pending"}
    IN  [g |-> [gr EXCEPT !.status = [id \in gr.ids |->
                    IF id = n THEN "failed"
                    ELSE IF id \in fresh THEN "skipped"
                    ELSE gr.status[id]]],
         skipped |-> SetToSeq(fresh)]

Resource(gr, n) == gr.res[n]

----------------------------------------------------------------------------
(* The catalog model: resource bodies, commands and conditions.            *)

Command(w, argv, env, dir) == [which |-> w, argv |-> argv, env |-> env, dir |-> dir]
NoCommand == Command("none", <<>>, <<>>, <<>>)

File(w, path, hasContent, target) ==
    [which |-> w, path |-> path, hasContent |-> hasContent, target |-> target]
NoFile == File("none", <<>>, FALSE, "")

Exec(cw, ccmd, cpath, command) ==
    [condWhich |-> cw, condCmd |-> ccmd, condPath |-> cpath, command |-> command]
NoExec == Exec("none", NoCommand, <<>>, NoCommand)

Noop == [which |-> "noop", file |-> NoFile, exec |-> NoExec]
FileBody(f) == [which |-> "file", file |-> f, exec |-> NoExec]
ExecBody(e) == [which |-> "exec", file |-> NoFile, exec |-> e]
OtherBody == [which |-> "other", file |-> NoFile, exec |-> NoExec]

Rsrc(id, deps, body) == [id |-> id, deps |-> deps, body |-> body]

\* What Logger and System are called with, in the order of the calls.
Event(k, id, ids, path, target, cmd) ==
    [kind |-> k, id |-> id, ids |-> ids, path |-> path, target |-> target, cmd |-> cmd]
NoCmd == [Path |-> <<>>, Args |-> <<>>, Env |-> <<>>, Dir |-> <<>>]
Call(k, path, target) == Event(k, 0, <<>>, path, target, NoCmd)
RunCall(cmd) == Event("Run", 0, <<>>, <<>>, "", cmd)
Applying(id) == Event("applying", id, <<>>, <<>>, "", NoCmd)
LogError(id) == Event("error", id, <<>>, <<>>, "", NoCmd)
Skipping(id, ids) == Event("skipping", id, ids, <<>>, "", NoCmd)

\* An executor's result: err is "" (nil) or the error, fs the host it leaves,
\* calls the System calls it made.
Res(e, f, calls) == [err |-> e, fs |-> f, calls |-> calls]

----------------------------------------------------------------------------
(* The executors.                                                          *)

\* The symlink case retargeting a link that already points at target.
applySymlinkAlwaysRetarget(f, path, target) ==
    LET s1 == SysSymlink(f, target, path)
        c1 == <<Call("Symlink", path, target)>>
    IN  IF s1.err = "" \/ s1.err # "exist" THEN Res(s1.err, s1.fs, c1)
        ELSE LET info == SysLstat(s1.fs, path)
                 c2 == c1 \o <<Call("Lstat", path, "")>>
             IN  IF info.err # "" THEN Res("determine state", s1.fs, c2)
                 ELSE IF info.val # "symlink" THEN Res("not a symlink", s1.fs, c2)
                 ELSE LET actual == SysReadlink(s1.fs, path)
                          c3 == c2 \o <<Call("Readlink", path, "")>>
                      IN  IF actual.err # "" THEN Res(actual.err, s1.fs, c3)
                          ELSE LET rm == SysRemove(s1.fs, path)
                                   c4 == c3 \o <<Call("Remove", path, "")>>
                               IN  IF rm.err # "" THEN Res("retargeting", rm.fs, c4)
                                   ELSE LET s2 == SysSymlink(rm.fs, target, path)
                                            c5 == c4 \o <<Call("Symlink", path, target)>>
                                        IN  IF s2.err # "" THEN Res("retargeting", s2.fs, c5)
                                            ELSE Res("", s2.fs, c5)

\* The symlink case replacing whatever is at path, without looking at it.
applySymlinkForce(f, path, target) ==
    LET s1 == SysSymlink(f, target, path)
        c1 == <<Call("Symlink", path, target)>>
    IN  IF s1.err = "" \/ s1.err # "exist" THEN Res(s1.err, s1.fs, c1)
        ELSE LET rm == SysRemove(s1.fs, path)
                 c4 == c1 \o <<Call("Remove", path, "")>>
             IN  IF rm.err # "" THEN Res("retargeting", rm.fs, c4)
                 ELSE LET s2 == SysSymlink(rm.fs, target, path)
                          c5 == c4 \o <<Call("Symlink", path, target)>>
                      IN  IF s2.err # "" THEN Res("retargeting", s2.fs, c5)
                          ELSE Res("", s2.fs, c5)

\* The symlink case of applyFile.
applySymlink(f, path, target) ==
    LET s1 == SysSymlink(f, target, path)
        c1 == <<Call("Symlink", path, target)>>
    IN  IF s1.err = "" \/ s1.err # "exist" THEN Res(s1.err, s1.fs, c1)
        ELSE LET info == SysLstat(s1.fs, path)
                 c2 == c1 \o <<Call("Lstat", path, "")>>
             IN  IF info.err # "" THEN Res("determine state", s1.fs, c2)
                 ELSE IF info.val # "symlink" THEN Res("not a symlink", s1.fs, c2)
                 ELSE LET actual == SysReadlink(s1.fs, path)
                          c3 == c2 \o <<Call("Readlink", path, "")>>
                      IN  IF actual.err # "" THEN Res(actual.err, s1.fs, c3)
                          ELSE IF actual.val = target THEN Res("", s1.fs, c3)
                          ELSE LET rm == SysRemove(s1.fs, path)
                                   c4 == c3 \o <<Call("Remove", path, "")>>
                               IN  IF rm.err # "" THEN Res("retargeting", rm.fs, c4)
                                   ELSE LET s2 == SysSymlink(rm.fs, target, path)
                                            c5 == c4 \o <<Call("Symlink", path, target)>>
                                        IN  IF s2.err # "" THEN Res("retargeting", s2.fs, c5)
                                            ELSE Res("", s2.fs, c5)

applyFile(f, file) ==
    LET path == file.path IN
    IF path = EmptyPath THEN Res("file path is empty", f, <<>>)
    ELSE IF file.which = "plain" THEN
        IF file.hasContent THEN
            LET w == SysWriteFile(f, path)
            IN  Res(w.err, w.fs, <<Call("WriteFile", path, "")>>)
        ELSE
            LET info == SysLstat(f, path)
                c == <<Call("Lstat", path, "")>>
            IN  IF info.err # "" THEN Res(info.err, f, c)
                ELSE IF info.val # "file" THEN Res("not a regular file", f, c)
                ELSE Res("", f, c)
    ELSE IF file.which = "directory" THEN
        LET m == SysMkdir(f, path)
            c1 == <<Call("Mkdir", path, "")>>
        IN  IF m.err = "" \/ m.err # "exist" THEN Res(m.err, m.fs, c1)
            ELSE LET info == SysLstat(m.fs, path)
                     c2 == c1 \o <<Call("Lstat", path, "")>>
                 IN  IF info.err # "" THEN Res("determine state", m.fs, c2)
                     ELSE IF info.val # "dir" THEN Res("not a directory", m.fs, c2)
                     ELSE Res("", m.fs, c2)
    ELSE IF file.which = "symlink" THEN applySymlink(f, path, file.target)
    ELSE IF file.which = "absent" THEN
        LET rm == SysRemove(f, path)
            c == <<Call("Remove", path, "")>>
        IN  IF rm.err = "" \/ rm.err # "notexist" THEN Res(rm.err, rm.fs, c)
            ELSE Res("", rm.fs, c)
    ELSE Res("unsupported file directive", f, <<>>)

\* buildCommand: the system.Cmd of a catalog command, or an error.
buildCommand(cmd) ==
    LET bad(e) == [err |-> e, cmd |-> NoCmd] IN
    IF cmd.which # "argv" THEN bad("unsupported command type")
    ELSE IF Len(cmd.argv) = 0 THEN bad("0-length argv")
    ELSE IF ~IsAbs(cmd.argv[1]) THEN bad("argv[0] is not an absolute path")
    ELSE IF \E i \in DOMAIN cmd.env : cmd.env[i][1] = "" THEN bad("environment missing name")
    ELSE IF cmd.dir # <<>> /\ ~IsAbs(cmd.dir) THEN bad("working directory is not absolute")
    ELSE [err |-> "",
          cmd |-> [Path |-> cmd.argv[1],
                   Args |-> cmd.argv,
                   Env |-> [i \in DOMAIN cmd.env |-> <<cmd.env[i][1], "=", cmd.env[i][2]>>],
                   Dir |-> IF cmd.dir = <<>> THEN LocalRoot ELSE cmd.dir]]

\* The tail of applyExec: build and run the main command.
runMain(f, e, calls) ==
    LET b == buildCommand(e.command) IN
    IF b.err # "" THEN Res("command: " \o b.err, f, calls)
    ELSE LET r == SysRun(f, b.cmd)
         IN  IF r.err # "" THEN Res("command: " \o r.err, r.fs, calls \o <<RunCall(b.cmd)>>)
             ELSE Res("", r.fs, calls \o <<RunCall(b.cmd)>>)

\* applyExec with the test of unless turned round: an exit status of zero
\* lets the main command run, a non-zero one skips it.
applyExecUnlessInverted(f, e) ==
    IF e.condWhich = "always" THEN runMain(f, e, <<>>)
    ELSE IF e.condWhich = "onlyIf" THEN
        LET b == buildCommand(e.condCmd) IN
        IF b.err # "" THEN Res("condition: " \o b.err, f, <<>>)
        ELSE LET r == SysRun(f, b.cmd)
                 c == <<RunCall(b.cmd)>>
             IN  IF r.err = "ExitError" THEN Res("", r.fs, c)
                 ELSE IF r.err # "" THEN Res("condition: " \o r.err, r.fs, c)
                 ELSE runMain(r.fs, e, c)
    ELSE IF e.condWhich = "unless" THEN
        LET b == buildCommand(e.condCmd) IN
        IF b.err # "" THEN Res("condition: " \o b.err, f, <<>>)
        ELSE LET r == SysRun(f, b.cmd)
                 c == <<RunCall(b.cmd)>>
             IN  IF r.err = "ExitError" THEN Res("", r.fs, c)
                 ELSE IF r.err # "" THEN Res("condition: " \o r.err, r.fs, c)
                 ELSE runMain(r.fs, e, c)
    ELSE IF e.condWhich = "fileAbsent" THEN
        LET info == SysLstat(f, e.condPath)
            c == <<Call("Lstat", e.condPath, "")>>
        IN  IF info.err = "" THEN Res("", f, c)
            ELSE IF info.err # "notexist" THEN Res("condition: " \o info.err, f, c)
            ELSE runMain(f, e, c)
    ELSE Res("unknown condition", f, <<>>)

applyExec(f, e) ==
    IF e.condWhich = "always" THEN runMain(f, e, <<>>)
    ELSE IF e.condWhich = "onlyIf" THEN
        LET b == buildCommand(e.condCmd) IN
        IF b.err # "" THEN Res("condition: " \o b.err, f, <<>>)
        ELSE LET r == SysRun(f, b.cmd)
                 c == <<RunCall(b.cmd)>>
             IN  IF r.err = "ExitError" THEN Res("", r.fs, c)
                 ELSE IF r.err # "" THEN Res("condition: " \o r.err, r.fs, c)
                 ELSE runMain(r.fs, e, c)
    ELSE IF e.condWhich = "unless" THEN
        LET b == buildCommand(e.condCmd) IN
        IF b.err # "" THEN Res("condition: " \o b.err, f, <<>>)
        ELSE LET r == SysRun(f, b.cmd)
                 c == <<RunCall(b.cmd)>>
             IN  IF r.err = "" THEN Res("", r.fs, c)
                 ELSE IF r.err # "ExitError" THEN Res("condition: " \o r.err, r.fs, c)
                 ELSE runMain(r.fs, e, c)
    ELSE IF e.condWhich = "fileAbsent" THEN
        LET info == SysLstat(f, e.condPath)
            c == <<Call("Lstat", e.condPath, "")>>
        IN  IF info.err = "" THEN Res("", f, c)
            ELSE IF info.err # "notexist" THEN Res("condition: " \o info.err, f, c)
            ELSE runMain(f, e, c)
    ELSE Res("unknown condition", f, <<>>)

\* applyResource with no case for noop: it falls to the default.
applyResourceNoNoop(f, r) ==
    IF r.body.which = "file" THEN applyFile(f, r.body.file)
    ELSE IF r.body.which = "exec" THEN applyExec(f, r.body.exec)
    ELSE Res("unknown type", f, <<>>)

applyResource(f, r) ==
    IF r.body.which = "noop" THEN Res("", f, <<>>)
    ELSE IF r.body.which = "file" THEN applyFile(f, r.body.file)
    ELSE IF r.body.which = "exec" THEN applyExec(f, r.body.exec)
    ELSE Res("unknown type", f, <<>>)

----------------------------------------------------------------------------
(* The driver: Applier.Apply and Applier.applyCatalog.                     *)

Executing(id) == Event("applyResource", id, <<>>, <<>>, "", NoCmd)
\* applyResource returns err for the resource id.
Result(id, err) == Event("result", id, <<>>, <<>>, err, NoCmd)

\* How a pass through the loop body ends: it returns r from applyCatalog, or
\* goes back to the loop head.
Leave(r, gr, f, okf) ==
    [returned |-> TRUE, ret |-> r, g |-> gr, fs |-> f, ok |-> okf, events |-> <<>>]
Again(gr, f, okf, ev) ==
    [returned |-> FALSE, ret |-> "", g |-> gr, fs |-> f, ok |-> okf, events |-> ev]

\* OnSuccess without the call of g.Mark.
OnSuccessNoMark(gr, curr, f, okf, ev) == Again(gr, f, okf, ev)

\* The resource's executor returned nil.
OnSuccess(gr, curr, f, okf, ev) == Again(Mark(gr, curr), f, okf, ev)

\* OnFailure logging the skipped resources only when there are several.
OnFailureSkipSeveral(gr, curr, f, okf, ev) ==
    LET res == Resource(gr, curr)
        mf == MarkFailure(gr, curr)
    IN  Again(mf.g, f, FALSE,
              ev \o <<LogError(res.id)>> \o
              (IF Len(mf.skipped) > 1 THEN <<Skipping(res.id, mf.skipped)>> ELSE <<>>))

\* OnFailure marking the resource with g.Mark, as if it had succeeded.
OnFailureAsDone(gr, curr, f, okf, ev) ==
    LET res == Resource(gr, curr)
    IN  Again(Mark(gr, curr), f, FALSE, ev \o <<LogError(res.id)>>)

\* OnFailure returning the resource's error from applyCatalog.
OnFailureAbort(gr, curr, f, okf, ev) ==
    LET res == Resource(gr, curr)
        mf == MarkFailure(gr, curr)
    IN  [returned |-> TRUE, ret |-> "resource", g |-> mf.g, fs |-> f, ok |-> FALSE,
         events |-> ev \o <<LogError(res.id)>>]

\* OnFailure recording the failure of curr alone: no resource is skipped.
OnFailureNoSkip(gr, curr, f, okf, ev) ==
    LET res == Resource(gr, curr)
    IN  Again([gr EXCEPT !.status[curr] = "failed"], f, FALSE, ev \o <<LogError(res.id)>>)

\* OnFailure giving up on every other resource: all of them become skipped,
\* those already applied too.
OnFailureSkipAll(gr, curr, f, okf, ev) ==
    LET res == Resource(gr, curr)
        others == SetToSeq(gr.ids \ {curr})
    IN  Again([gr EXCEPT !.status = [id \in gr.ids |->
                                        IF id = curr THEN "failed" ELSE "skipped"]],
              f, FALSE,
              ev \o <<LogError(res.id)>> \o
              (IF Len(others) > 0 THEN <<Skipping(res.id, others)>> ELSE <<>>))

\* OnFailure skipping only the resources that name curr in their own
\* dependency list.
OnFailureSkipChildren(gr, curr, f, okf, ev) ==
    LET res == Resource(gr, curr)
        children == {x \in gr.ids : curr \in gr.deps[x] /\ gr.status[x] = "pending"}
    IN  Again([gr EXCEPT !.status = [id \in gr.ids |->
                                        IF id = curr THEN "failed"
                                        ELSE IF id \in children THEN "skipped"
                                        ELSE gr.status[id]]],
              f, FALSE,
              ev \o <<LogError(res.id)>> \o
              (IF children # {} THEN <<Skipping(res.id, SetToSeq(children))>> ELSE <<>>))

\* OnFailure reporting the error before and after MarkFailure.
OnFailureLogTwice(gr, curr, f, okf, ev) ==
    LET res == Resource(gr, curr)
        mf == MarkFailure(gr, curr)
    IN  Again(mf.g, f, FALSE,
              ev \o <<LogError(res.id)>> \o
              (IF Len(mf.skipped) > 0 THEN <<Skipping(res.id, mf.skipped)>> ELSE <<>>)
              \o <<LogError(res.id)>>)

\* OnFailure without the call of g.MarkFailure.
OnFailureNoMark(gr, curr, f, okf, ev) ==
    LET res == Resource(gr, curr)
    IN  Again(gr, f, FALSE, ev \o <<LogError(res.id)>>)

\* The resource's executor returned an error.
OnFailure(gr, curr, f, okf, ev) ==
    LET res == Resource(gr, curr)
        mf == MarkFailure(gr, curr)
    IN  Again(mf.g, f, FALSE,
              ev \o <<LogError(res.id)>> \o
              (IF Len(mf.skipped) > 0 THEN <<Skipping(res.id, mf.skipped)>> ELSE <<>>))

\* Select taking the ready resource that comes first in the catalog.
SelectCatalogOrder(gr, ready) ==
    LET pos(id) == CHOOSE i \in DOMAIN gr.order : gr.order[i] = id
    IN  CHOOSE id \in {ready[k] : k \in DOMAIN ready} :
            \A k \in DOMAIN ready : pos(id) <= pos(ready[k])

\* Select taking the last of the ready resources.
SelectLast(gr, ready) == ready[Len(ready)]

\* The resource applyCatalog applies next.
Select(gr, ready) == ready[1]

\* The loop body from the choice of curr on.
ApplyCurr(gr, f, okf, ready) ==
    LET curr == Select(gr, ready)
        res == Resource(gr, curr)
        r == applyResource(f, res)
        ev == <<Applying(res.id), Executing(res.id)>> \o r.calls \o <<Result(res.id, r.err)>>
    IN  IF r.err = "" THEN OnSuccess(gr, curr, r.fs, okf, ev)
        ELSE OnFailure(gr, curr, r.fs, okf, ev)

\* Iteration without the look at ctx.Done().
IterationNoCancel(gr, f, okf, canc) ==
    LET ready == Ready(gr)
    IN  IF Len(ready) = 0 THEN Leave("internal", gr, f, okf)
        ELSE ApplyCurr(gr, f, okf, ready)

\* One pass through the body of applyCatalog's loop, entered with the graph
\* not done.
Iteration(gr, f, okf, canc) ==
    LET ready == Ready(gr)
    IN  IF Len(ready) = 0 THEN Leave("internal", gr, f, okf)
        ELSE IF canc THEN Leave("cancelled", gr, f, okf)
        ELSE ApplyCurr(gr, f, okf, ready)

\* AfterLoop forgetting the flag.
AfterLoopNil(okf) == "nil"

\* What applyCatalog returns once the loop condition fails.
AfterLoop(okf) == IF ~okf THEN "notclean" ELSE "nil"

\* A whole Apply whose context is never cancelled, as a function of the
\* catalog and the host: what it returns, what it calls, what it leaves.
RECURSIVE applyCatalog(_, _, _, _)
applyCatalog(gr, f, okf, tr) ==
    IF Done(gr) THEN [ret |-> AfterLoop(okf), trace |-> tr, fs |-> f]
    ELSE LET it == Iteration(gr, f, okf, FALSE)
         IN  IF it.returned THEN [ret |-> it.ret, trace |-> tr, fs |-> f]
             ELSE applyCatalog(it.g, it.fs, it.ok, tr \o it.events)

ApplyUncancelled(c, f) ==
    LET gn == New(c)
    IN  IF gn.err # "" THEN [ret |-> "construction", trace |-> <<>>, fs |-> f]
        ELSE applyCatalog(gn, f, TRUE, <<>>)

----------------------------------------------------------------------------
(* The catalogs and hosts the applier is run on.                           *)

CmdTrue == Command("argv", <<BinTrue>>, <<>>, <<>>)
CmdFalse == Command("argv", <<BinFalse>>, <<>>, <<>>)
Commands ==
    {CmdTrue, CmdFalse,
     Command("argv", <<<<"/", "bin/missing">>>>, <<>>, <<>>),
     Command("argv", <<<<"true">>>>, <<>>, <<>>),
     Command("argv", <<>>, <<>>, <<>>),
     Command("argv", <<BinTrue>>, <<<<"", "v">>>>, <<>>),
     Command("argv", <<BinTrue>>, <<>>, <<"tmp">>),
     Command("argv", <<BinFalse, <<"x">>>>, <<<<"K", "v">>>>, <<"/", "tmp">>),
     Command("other", <<>>, <<>>, <<>>)}

Conditions ==
    {Exec("always", NoCommand, <<>>, NoCommand),
     Exec("fileAbsent", NoCommand, ThePath, NoCommand),
     Exec("other", NoCommand, <<>>, NoCommand)}
    \cup {Exec(w, c, <<>>, NoCommand) : w \in {"onlyIf", "unless"}, c \in Commands}

ExecBodies == {ExecBody([k EXCEPT !.command = c]) : k \in Conditions, c \in Commands}

\* The file resources on ThePath, and those applyFile rejects.
FileBodies ==
    {FileBody(File("plain", ThePath, TRUE, "")),
     FileBody(File("plain", ThePath, FALSE, "")),
     FileBody(File("directory", ThePath, FALSE, "")),
     FileBody(File("absent", ThePath, FALSE, ""))}
    \cup {FileBody(File("symlink", ThePath, FALSE, t)) : t \in Targets}
BadFileBodies ==
    {FileBody(File("plain", EmptyPath, TRUE, "")),
     FileBody(File("other", ThePath, FALSE, ""))}

ExecAlways(c) == ExecBody(Exec("always", NoCommand, <<>>, c))

Hosts == [ent : Entries, ro : BOOLEAN]
EmptyHost == [ent |-> Absent, ro |-> FALSE]

\* The catalog of the resources 1..n, listed in descending order of ID: the
\* order of the catalog is not the order of execution.
MkCatalog(n, deps, body) ==
    [i \in 1..n |-> LET id == n + 1 - i IN Rsrc(id, deps[id], body[id])]

Acyclic(n, deps) == \A id \in 1..n : id \notin Ancestors(deps, id)

\* The resources of a graph catalog succeed (/bin/true) or fail (/bin/false),
\* or are all noop.
GraphBodies(n) ==
    [1..n -> {ExecAlways(CmdTrue), ExecAlways(CmdFalse)}] \cup {[i \in 1..n |-> Noop]}

\* Every acyclic dependency relation over the IDs 1..n.
IsGraphCatalog(c) ==
    \E n \in 0..MaxRes : \E deps \in [1..n -> SUBSET (1..n)] :
        /\ Acyclic(n, deps)
        /\ \E b \in GraphBodies(n) : c = MkCatalog(n, deps, b)

\* The catalog c of an acyclic relation with one defect at its i-th resource:
\* a zero ID, a repeated ID, a dependency on an ID that is not in the catalog,
\* a dependency on itself or on a resource that depends on it.
Defects(c, i, n, deps) ==
    {[c EXCEPT ![i].id = 0], Append(c, c[i]), [c EXCEPT ![i].deps = @ \cup {n + 1}]}
    \cup {[c EXCEPT ![i].deps = @ \cup {d}] :
             d \in {x \in 1..n : x = c[i].id \/ c[i].id \in Ancestors(deps, x)}}

IsDefectCatalog(c) ==
    \E n \in 1..MaxRes : \E deps \in [1..n -> SUBSET (1..n)] :
        /\ Acyclic(n, deps)
        /\ \E i \in 1..n :
              c \in Defects(MkCatalog(n, deps, [k \in 1..n |-> ExecAlways(CmdTrue)]),
                            i, n, deps)

\* File resources on ThePath, independent or each depending on the one before.
IsFileCatalog(c) ==
    \E n \in 1..MaxFileRes : \E b \in [1..n -> FileBodies], chain \in BOOLEAN :
        c = [i \in 1..n |-> Rsrc(i, IF chain /\ i > 1 THEN {i - 1} ELSE {}, b[i])]

\* One resource: an exec resource, a file resource applyFile rejects, or one
\* of a kind the applier does not know.
IsExecCatalog(c) ==
    \E b \in ExecBodies \cup BadFileBodies \cup {OtherBody} : c = <<Rsrc(1, {}, b)>>

\* The catalogs of the fair specification: whether Apply returns is a matter
\* of the graph and of which executors fail.
IsFairCatalog(c) ==
    \E n \in 0..MaxFairRes : \E deps \in [1..n -> SUBSET (1..n)] :
        /\ Acyclic(n, deps)
        /\ \E b \in GraphBodies(n) : c = MkCatalog(n, deps, b)

FairInit ==
    /\ IsFairCatalog(catalog)
    /\ fs = EmptyHost
    /\ fs0 = fs
    /\ cancelled = FALSE
    /\ pc = "idle"
    /\ g = NoGraph
    /\ ok = TRUE
    /\ trace = <<>>
    /\ last = NoRecord
    /\ before = ""
    /\ runs = 0

Init ==
    /\ \/ (IsGraphCatalog(catalog) \/ IsDefectCatalog(catalog)) /\ fs = EmptyHost
       \/ IsFileCatalog(catalog) /\ fs \in Hosts
       \/ IsExecCatalog(catalog) /\ fs \in [ent : Entries, ro : {FALSE}]
    /\ fs0 = fs
    /\ cancelled = FALSE
    /\ pc = "idle"
    /\ g = NoGraph
    /\ ok = TRUE
    /\ trace = <<>>
    /\ last = NoRecord
    /\ before = ""
    /\ runs = 0

----------------------------------------------------------------------------
(* The actions.                                                            *)

\* Apply or applyCatalog returns r.
Return(r, tr, gr, f) ==
    /\ last' = [ret |-> r, trace |-> tr, fs0 |-> fs0, fs |-> f, g |-> gr]
    /\ pc' = "idle"
    /\ fs' = f
    /\ fs0' = f
    /\ cancelled' = FALSE
    /\ g' = NoGraph
    /\ ok' = TRUE
    /\ trace' = <<>>
    /\ UNCHANGED <<catalog, before, runs>>

\* Apply dropping the construction error.
ApplyErrorDropped ==
    /\ pc = "idle"
    /\ runs < MaxRuns
    /\ runs' = runs + 1
    /\ before' = last.ret
    /\ LET gn == New(catalog)
       IN  IF gn.err # ""
           THEN /\ last' = [ret |-> "nil", trace |-> <<>>, fs0 |-> fs, fs |-> fs,
                            g |-> NoGraph]
                /\ cancelled' = FALSE
                /\ UNCHANGED <<catalog, fs, fs0, pc, g, ok, trace>>
           ELSE /\ pc' = "loop"
                /\ g' = gn
                /\ ok' = TRUE
                /\ trace' = <<>>
                /\ fs0' = fs
                /\ last' = NoRecord
                /\ UNCHANGED <<catalog, fs, cancelled>>

\* The caller calls Apply: the graph is built and applyCatalog entered.
Apply ==
    /\ pc = "idle"
    /\ runs < MaxRuns
    /\ runs' = runs + 1
    /\ before' = last.ret
    /\ LET gn == New(catalog)
       IN  IF gn.err # ""
           THEN /\ last' = [ret |-> "construction", trace |-> <<>>, fs0 |-> fs, fs |-> fs,
                            g |-> NoGraph]
                /\ cancelled' = FALSE
                /\ UNCHANGED <<catalog, fs, fs0, pc, g, ok, trace>>
           ELSE /\ pc' = "loop"
                /\ g' = gn
                /\ ok' = TRUE
                /\ trace' = <<>>
                /\ fs0' = fs
                /\ last' = NoRecord
                /\ UNCHANGED <<catalog, fs, cancelled>>

\* The loop condition holds: one pass through the loop body.
LoopBody ==
    /\ pc = "loop"
    /\ ~Done(g)
    /\ \E it \in {Iteration(g, fs, ok, cancelled)} :
           IF it.returned THEN Return(it.ret, trace \o it.events, it.g, it.fs)
           ELSE /\ g' = it.g
                /\ fs' = it.fs
                /\ ok' = it.ok
                /\ trace' = trace \o it.events
                /\ UNCHANGED <<catalog, fs0, cancelled, pc, last, before, runs>>

\* LoopExit looking at ctx.Done() once more before the summary.
LoopExitChecksCancel ==
    /\ pc = "loop"
    /\ Done(g)
    /\ Return(IF cancelled THEN "cancelled" ELSE AfterLoop(ok), trace, g, fs)

\* The loop condition fails: applyCatalog returns its summary.
LoopExit ==
    /\ pc = "loop"
    /\ Done(g)
    /\ Return(AfterLoop(ok), trace, g, fs)

\* The caller cancels the context of the Apply in progress or about to begin.
Cancel ==
    /\ ~cancelled
    /\ pc = "loop" \/ runs < MaxRuns
    /\ cancelled' = TRUE
    /\ UNCHANGED <<catalog, fs, fs0, pc, g, ok, trace, last, before, runs>>

Next == Apply \/ LoopBody \/ LoopExit \/ Cancel

Spec == Init /\ [][Next]_vars

\* applyCatalog runs in the caller's goroutine: while every System call
\* returns, the loop goes on to its next pass or to its exit.  The caller
\* need not call Apply again, nor cancel.
FairSpec == FairInit /\ [][Next]_vars /\ WF_vars(LoopBody) /\ WF_vars(LoopExit)

----------------------------------------------------------------------------
(* What the properties speak of.                                           *)

\* An Apply has returned and no other has begun.
Returned == pc = "idle" /\ last # NoRecord

\* The calls and the graph of the Apply in progress, or of the one that
\* returned last.
T == IF pc = "loop" THEN trace ELSE IF last # NoRecord THEN last.trace ELSE <<>>
G == IF pc = "loop" THEN g ELSE IF last # NoRecord THEN last.g ELSE NoGraph

CatIds == {catalog[i].id : i \in DOMAIN catalog}
CatDeps(id) == UNION {catalog[i].deps : i \in {k \in DOMAIN catalog : catalog[k].id = id}}

\* The catalog's structural errors.
HasZeroId == 0 \in CatIds
HasDuplicateId == \E i, j \in DOMAIN catalog : i # j /\ catalog[i].id = catalog[j].id
HasMissingDep == \E id \in CatIds : ~(CatDeps(id) \subseteq CatIds)

\* id depends on d, directly or through others (dependencies resolved).
DependsOn(id, d) == d \in Closure([x \in CatIds |-> CatDeps(x)], CatDeps(id))

HasCycle ==
    /\ ~HasMissingDep
    /\ LET f == [x \in CatIds |-> CatDeps(x)]
       IN  \E id \in CatIds : id \in Closure(f, f[id])
WellFormed == ~HasZeroId /\ ~HasDuplicateId /\ ~HasMissingDep /\ ~HasCycle

Executed(id, tr) == \E j \in DOMAIN tr : tr[j] = Executing(id)
SucceededIn(id, tr) == \E j \in DOMAIN tr : tr[j] = Result(id, "")
FailedIn(id, tr) ==
    \E j \in DOMAIN tr : tr[j].kind = "result" /\ tr[j].id = id /\ tr[j].target # ""
SkipLines(id, tr) ==
    {j \in DOMAIN tr : /\ tr[j].kind = "skipping"
                       /\ \E k \in DOMAIN tr[j].ids : tr[j].ids[k] = id}

----------------------------------------------------------------------------
\* C1: Apply returns nil if and only if every resource of the catalog was
\* executed and its executor returned success; a construction error, a
\* cancellation, a failed or a skipped resource make it return an error.
C1_NilIffAllSucceeded ==
    Returned =>
        /\ (last.ret = "nil") <=>
               (\A i \in DOMAIN catalog : SucceededIn(catalog[i].id, last.trace))
        /\ last.ret \in {"nil", "construction", "cancelled", "internal", "notclean"}

C1_Witness ==
    /\ Returned
    /\ last.ret = "nil"
    /\ Len(catalog) >= 3
    /\ \E i \in DOMAIN catalog : catalog[i].deps # {}

\* C2: when the executor of R fails, no resource that depends on R, directly
\* or through others, is executed in that Apply, and each is named in exactly
\* one "skipping due to failure of" line, also with several failed ancestors.
C2_FailureSkipsDescendants ==
    LET wf == WellFormed
        tr == T
    IN  \A r \in CatIds : (FailedIn(r, tr) /\ wf) =>
            \A d \in CatIds : DependsOn(d, r) =>
                /\ ~Executed(d, tr)
                /\ Cardinality(SkipLines(d, tr)) = 1

C2_Witness ==
    /\ WellFormed
    /\ Returned
    /\ \E d, r1, r2 \in CatIds :
          /\ r1 # r2
          /\ FailedIn(r1, T) /\ FailedIn(r2, T)
          /\ DependsOn(d, r1) /\ DependsOn(d, r2)
          /\ Cardinality(SkipLines(d, T)) = 1

\* C3: for a well-formed catalog the "applying:" lines are in a topological
\* order: a resource's line comes after the line of each of its dependencies
\* and after that dependency's executor returned success.
C3_ApplyingTopological ==
    LET wf == WellFormed
        tr == T
    IN  \A j \in DOMAIN tr : (tr[j].kind = "applying" /\ wf) =>
            \A d \in CatDeps(tr[j].id) :
                /\ \E i \in 1..(j - 1) : tr[i] = Applying(d)
                /\ \E i \in 1..(j - 1) : tr[i] = Result(d, "")

C3_Witness ==
    /\ WellFormed
    /\ Returned
    /\ Len(catalog) >= 3
    /\ catalog[2].id \in catalog[1].deps
    /\ catalog[3].id \in catalog[2].deps
    /\ \A i \in DOMAIN catalog : \E j \in DOMAIN T : T[j] = Applying(catalog[i].id)

\* C4: in one Apply the executor of a resource is invoked at most once, and
\* a resource that was executed or skipped is not handed out by ready() again.
C4_ExecutedAtMostOnce ==
    /\ \A id \in CatIds : Cardinality({j \in DOMAIN T : T[j] = Executing(id)}) <= 1
    /\ pc = "loop" =>
          \A k \in DOMAIN Ready(g) :
              /\ ~Executed(Ready(g)[k], trace)
              /\ SkipLines(Ready(g)[k], trace) = {}

C4_Witness ==
    /\ Returned
    /\ Len(catalog) >= 3
    /\ \E a, b, c \in CatIds :
          /\ SucceededIn(a, T) /\ FailedIn(b, T) /\ SkipLines(c, T) # {}
          /\ Cardinality({j \in DOMAIN T : T[j].kind = "applyResource"}) = 2

\* C5: a failing resource does not end the loop: without cancellation every
\* resource that has no failed ancestor is still executed, the graph is done,
\* and only then Apply returns the summary error, not the resource's own.
C5_FailureDoesNotAbort ==
    (Returned /\ last.ret # "cancelled" /\ \E r \in CatIds : FailedIn(r, last.trace)) =>
        /\ last.ret = "notclean"
        /\ Done(last.g)
        /\ \A id \in CatIds :
              (\A a \in CatIds : DependsOn(id, a) => ~FailedIn(a, last.trace))
                  => Executed(id, last.trace)

C5_Witness ==
    /\ Returned
    /\ last.ret = "notclean"
    /\ \E r, s \in CatIds :
          /\ FailedIn(r, last.trace)
          /\ SucceededIn(s, last.trace)
          /\ \E i, j \in DOMAIN last.trace :
                i < j /\ last.trace[i] = LogError(r) /\ last.trace[j] = Applying(s)

\* C6: a pass through the loop that begins with the context cancelled and the
\* graph not done returns the cancellation error and does nothing else: no
\* log line, no executor, no System call, no change of a node's status.
C6_CancelledIterationReturns ==
    [][(pc = "loop" /\ ~Done(g) /\ cancelled) =>
          /\ pc' = "idle"
          /\ last'.ret = "cancelled"
          /\ last'.trace = trace
          /\ last'.g = g
          /\ fs' = fs]_vars

C6_Witness ==
    /\ Returned
    /\ last.ret = "cancelled"
    /\ Len(catalog) >= 3
    /\ Cardinality({id \in CatIds : last.g.status[id] = "done"}) = 1
    /\ Cardinality({id \in CatIds : last.g.status[id] = "pending"}) = Len(catalog) - 1
    /\ Cardinality({j \in DOMAIN last.trace : last.trace[j].kind = "applyResource"}) = 1

\* C7: for a catalog with a dependency cycle (a self-dependency included), a
\* dependency on an ID that is not there or a repeated ID, Apply returns the
\* construction error at once: nothing is logged, no executor runs, no System
\* method is invoked.
C7_ConstructionErrorAborts ==
    (HasDuplicateId \/ HasMissingDep \/ HasCycle) =>
        /\ pc = "idle"
        /\ trace = <<>>
        /\ fs = fs0
        /\ last # NoRecord => (last.ret = "construction" /\ last.trace = <<>>
                               /\ last.fs = last.fs0)

C7_Witness ==
    /\ Returned
    /\ last.ret = "construction"
    /\ ~HasZeroId /\ ~HasDuplicateId /\ HasCycle
    /\ \E id \in CatIds : id \in CatDeps(id)

----------------------------------------------------------------------------
Reverse(c) == [i \in 1..Len(c) |-> c[Len(c) + 1 - i]]

IsSystemCall(e) == e.kind \in SystemCalls
IsRun(e) == e.kind = "Run"
SysCallsOf(tr) == SelectSeq(tr, IsSystemCall)
RunCmds(tr) == LET r == SelectSeq(tr, IsRun) IN [i \in DOMAIN r |-> r[i].cmd]

\* Every resource of the catalog is a file resource of one of the four kinds.
AllFiles ==
    \A i \in DOMAIN catalog :
        /\ catalog[i].body.which = "file"
        /\ catalog[i].body.file.which \in {"plain", "directory", "symlink", "absent"}

\* C8: for a catalog of file resources, an Apply that follows a successful
\* Apply succeeds and makes no WriteFile, Mkdir, Symlink or Remove call.
C8_SecondApplyWritesNothing ==
    (Returned /\ runs >= 2 /\ before = "nil" /\ last.ret # "cancelled" /\ AllFiles) =>
        /\ last.ret = "nil"
        /\ \A j \in DOMAIN last.trace : last.trace[j].kind \notin WriteCalls

OneExec == Len(catalog) = 1 /\ catalog[1].body.which = "exec"
TheExec == catalog[1].body.exec
CondCmd == buildCommand(TheExec.condCmd)
MainCmd == buildCommand(TheExec.command)
CondExit == SysRun(last.fs0, CondCmd.cmd).err
CondSkips ==
    \/ TheExec.condWhich = "unless" /\ CondExit = ""
    \/ TheExec.condWhich = "onlyIf" /\ CondExit = "ExitError"
CondProceeds ==
    \/ TheExec.condWhich = "unless" /\ CondExit = "ExitError"
    \/ TheExec.condWhich = "onlyIf" /\ CondExit = ""
Conditional ==
    /\ Returned /\ last.ret # "cancelled"
    /\ OneExec /\ TheExec.condWhich \in {"onlyIf", "unless"}

\* C10 as claimed: with unless or onlyIf the condition command is run first;
\* when it says skip the main command is not run and the resource is done;
\* in the opposite exit case the main command is run once, after it.
C10_ConditionGatesMain ==
    Conditional =>
        /\ CondCmd.err = ""
        /\ Len(RunCmds(last.trace)) >= 1
        /\ RunCmds(last.trace)[1] = CondCmd.cmd
        /\ CondSkips => /\ RunCmds(last.trace) = <<CondCmd.cmd>>
                        /\ last.g.status[1] = "done"
        /\ CondProceeds => /\ MainCmd.err = ""
                           /\ RunCmds(last.trace) = <<CondCmd.cmd, MainCmd.cmd>>

\* C10 amended: the same for commands buildCommand accepts.  A condition
\* command it rejects is not run, and a main command it rejects is not run
\* after a condition that says proceed; the resource fails in both cases.
C10_ConditionGatesValidMain ==
    Conditional =>
        /\ CondCmd.err # "" => /\ RunCmds(last.trace) = <<>>
                               /\ last.g.status[1] = "failed"
        /\ CondCmd.err = "" =>
              /\ Len(RunCmds(last.trace)) >= 1
              /\ RunCmds(last.trace)[1] = CondCmd.cmd
              /\ CondSkips => /\ RunCmds(last.trace) = <<CondCmd.cmd>>
                              /\ last.g.status[1] = "done"
              /\ (CondProceeds /\ MainCmd.err = "") =>
                    RunCmds(last.trace) = <<CondCmd.cmd, MainCmd.cmd>>
              /\ (CondProceeds /\ MainCmd.err # "") =>
                    /\ RunCmds(last.trace) = <<CondCmd.cmd>>
                    /\ last.g.status[1] = "failed"

C10_Witness ==
    /\ Conditional
    /\ TheExec.condWhich = "unless"
    /\ TheExec.condCmd = CmdTrue
    /\ TheExec.command = CmdFalse
    /\ RunCmds(last.trace) = <<CondCmd.cmd>>
    /\ last.g.status[1] = "done"
    /\ last.ret = "nil"

----------------------------------------------------------------------------
(* One pass through the loop body, seen from outside: the events it adds   *)
(* to the trace, the resource it applies and what the executor returns.    *)

\* The step is a pass that applies a resource: the graph is not done and
\* the context is not cancelled.
Applies == pc = "loop" /\ ~Done(g) /\ ~cancelled /\ ~cancelled' /\ pc' = "loop"
NewEvents == SubSeq(trace', Len(trace) + 1, Len(trace'))
NewCalls == SysCallsOf(NewEvents)
Kinds(tr) == [i \in DOMAIN tr |-> tr[i].kind]
\* The IDs on the "applying:" lines of tr, in order.
AppliedIn(tr) ==
    LET IsApplying(e) == e.kind = "applying"
        a == SelectSeq(tr, IsApplying)
    IN  [i \in DOMAIN a |-> a[i].id]
NewId == AppliedIn(NewEvents)[1]
\* The error the executor returned in this pass, "" for nil.
NewErr ==
    LET IsResult(e) == e.kind = "result"
    IN  SelectSeq(NewEvents, IsResult)[1].target
CatBody(id) == catalog[CHOOSE i \in DOMAIN catalog : catalog[i].id = id].body
IsSymlinkBody(b) == b.which = "file" /\ b.file.which = "symlink"
\* The pass applies a symlink resource.
AppliesSymlink ==
    /\ Applies
    /\ AppliedIn(NewEvents) # <<>>
    /\ IsSymlinkBody(CatBody(NewId))
NewTarget == CatBody(NewId).file.target
NewPath == CatBody(NewId).file.path

\* C11: the symlink executor calls Symlink(target, path) first; only when the
\* entry exists it calls Lstat and fails on an entry that is not a symlink,
\* then Readlink; a link that already equals target is success with no
\* further call; otherwise Remove and Symlink again, success iff both
\* succeed.  For a link to another target the calls are exactly Symlink,
\* Lstat, Readlink, Remove, Symlink.
C11_SymlinkProtocol ==
    [][AppliesSymlink =>
          LET k == Kinds(NewCalls)
              here == fs.ent
              want == Entry("symlink", NewTarget)
          IN  /\ \A i \in DOMAIN NewCalls :
                    /\ NewCalls[i].path = NewPath
                    /\ NewCalls[i].kind = "Symlink" => NewCalls[i].target = NewTarget
              /\ k # <<>> /\ k[1] = "Symlink"
              /\ here = Absent =>
                    /\ k = <<"Symlink">>
                    /\ (NewErr = "") <=> ~fs.ro
                    /\ fs'.ent = IF fs.ro THEN Absent ELSE want
              /\ here.kind \in {"file", "dir"} =>
                    /\ k = <<"Symlink", "Lstat">>
                    /\ NewErr # ""
                    /\ fs' = fs
              /\ here = want =>
                    /\ k = <<"Symlink", "Lstat", "Readlink">>
                    /\ NewErr = ""
                    /\ fs' = fs
              /\ (here.kind = "symlink" /\ here # want) =>
                    /\ k = IF fs.ro
                           THEN <<"Symlink", "Lstat", "Readlink", "Remove">>
                           ELSE <<"Symlink", "Lstat", "Readlink", "Remove", "Symlink">>
                    /\ (NewErr = "") <=> ~fs.ro
                    /\ fs'.ent = IF fs.ro THEN here ELSE want]_vars

C11_Witness ==
    /\ Returned
    /\ Len(catalog) = 1
    /\ catalog[1].body = FileBody(File("symlink", ThePath, FALSE, "b"))
    /\ last.fs0 = [ent |-> Entry("symlink", "a"), ro |-> FALSE]
    /\ Kinds(SysCallsOf(last.trace)) = <<"Symlink", "Lstat", "Readlink", "Remove", "Symlink">>
    /\ last.ret = "nil"
    /\ last.fs.ent = Entry("symlink", "b")

----------------------------------------------------------------------------
\* The catalog has no resource, or noop resources only.
AllNoop == \A i \in DOMAIN catalog : catalog[i].body.which = "noop"

----------------------------------------------------------------------------
StatusOf(gr, st) == {id \in gr.ids : gr.status[id] = st}

\* C13: after every sequence of Mark and MarkFailure calls the driver makes
\* on a well-formed graph, Ready() is not empty while Done() is false, and
\* Apply never returns "graph not done, but has nothing to do".
C13_ReadyWhileNotDone ==
    /\ (pc = "loop" /\ ~Done(g)) => Len(Ready(g)) > 0
    /\ Returned => last.ret # "internal"

C13_Witness ==
    /\ pc = "loop"
    /\ ~Done(g)
    /\ StatusOf(g, "failed") # {}
    /\ StatusOf(g, "skipped") # {}
    /\ Len(Ready(g)) = 1
    /\ Cardinality(StatusOf(g, "pending")) = 1

----------------------------------------------------------------------------
\* C14: a node's status changes only from pending: once done, failed or
\* skipped it keeps that status for the rest of the Apply.  MarkFailure
\* leaves done and failed nodes alone, and a node becomes done or failed
\* only when it was ready.
C14_StatusMonotone ==
    [][pc = "loop" =>
          LET after == IF pc' = "loop" THEN g' ELSE last'.g
              ready == Ready(g)
          IN  \A id \in g.ids :
                  /\ g.status[id] # "pending" => after.status[id] = g.status[id]
                  /\ (after.status[id] \in {"done", "failed"} /\ g.status[id] = "pending")
                         => \E k \in DOMAIN ready : ready[k] = id]_vars

C14_Witness ==
    /\ Returned
    /\ last.g # NoGraph
    /\ StatusOf(last.g, "done") # {}
    /\ StatusOf(last.g, "failed") # {}
    /\ StatusOf(last.g, "skipped") # {}
    /\ \E a, b \in CatIds : \E i, j \in DOMAIN last.trace :
          /\ i < j
          /\ last.trace[i] = Result(a, "")
          /\ last.trace[j] = LogError(b)
          /\ last.g.status[a] = "done"

----------------------------------------------------------------------------
\* C15: between the passes of the loop, and when Apply returns, a node is
\* skipped if and only if one of its transitive dependencies is failed or
\* skipped; a skipped node has a failed ancestor, and every descendant of a
\* failed node is skipped (none pending, ready or done).
C15_SkippedIffFailedAncestor ==
    LET gr == G
    IN  gr.err = "" =>
            \A id \in gr.ids :
                LET anc == Ancestors(gr.deps, id)
                IN  /\ (gr.status[id] = "skipped") <=>
                           (\E a \in anc : gr.status[a] \in {"failed", "skipped"})
                    /\ gr.status[id] = "skipped" => \E a \in anc : gr.status[a] = "failed"
                    /\ (\E a \in anc : gr.status[a] = "failed") => gr.status[id] = "skipped"

C15_Witness ==
    /\ pc = "loop"
    /\ \E id \in g.ids :
          /\ g.status[id] = "skipped"
          /\ \A d \in g.deps[id] : g.status[d] = "skipped"
          /\ \E a \in Ancestors(g.deps, id) : g.status[a] = "failed"

----------------------------------------------------------------------------
\* The pending nodes of gr whose dependencies are all done.
Candidates(gr) ==
    {id \in gr.ids : /\ gr.status[id] = "pending"
                     /\ \A d \in gr.deps[id] : gr.status[d] = "done"}

\* C16: each pass of the loop applies exactly one resource, and it is the
\* one with the lowest ID among the pending nodes whose dependencies are all
\* done: no resource is applied while one with a lower ID is ready.
C16_LowestReadyFirst ==
    [][Applies =>
          LET cand == Candidates(g)
              IsExecuting(e) == e.kind = "applyResource"
              ex == SelectSeq(NewEvents, IsExecuting)
          IN  /\ Len(AppliedIn(NewEvents)) = 1
              /\ Len(ex) = 1
              /\ ex[1].id = NewId
              /\ NewId \in cand
              /\ \A c \in cand : NewId <= c
              /\ g.status[NewId] = "pending" /\ g'.status[NewId] # "pending"]_vars

C16_Witness ==
    /\ Returned
    /\ Len(catalog) >= 3
    /\ \A i \in DOMAIN catalog : catalog[i].deps = {}
    /\ catalog[1].id > catalog[2].id
    /\ AppliedIn(last.trace) = <<1, 2, 3>>

----------------------------------------------------------------------------
\* The resources tr names in a "skipping" line before position j.
SkippedBefore(tr, j) ==
    UNION {{tr[i].ids[k] : k \in DOMAIN tr[i].ids} :
              i \in {x \in 1..(j - 1) : tr[x].kind = "skipping"}}

\* C17: a resource whose executor fails is reported by exactly one
\* Logger.Error call, a resource that succeeds or is skipped by none.  The
\* events of a resource come in the order "applying:" line, executor
\* (with its System calls), Logger.Error, then one "skipping due to failure
\* of" line if and only if descendants were freshly skipped, all before the
\* next resource's "applying:" line.
C17_FailureLoggedOnce ==
    LET tr == T
        n == Len(tr)
    IN  /\ \A id \in CatIds :
              Cardinality({j \in DOMAIN tr : tr[j] = LogError(id)})
                  = IF FailedIn(id, tr) THEN 1 ELSE 0
        /\ \A j \in DOMAIN tr :
              LET e == tr[j]
                  nextApplying == j < n => tr[j + 1].kind = "applying"
              IN  /\ e.kind = "applying" => j < n /\ tr[j + 1] = Executing(e.id)
                  /\ e.kind = "applyResource" =>
                        /\ j > 1 /\ tr[j - 1] = Applying(e.id)
                        /\ \E k \in (j + 1)..n :
                              /\ tr[k].kind = "result" /\ tr[k].id = e.id
                              /\ \A i \in (j + 1)..(k - 1) : IsSystemCall(tr[i])
                  /\ IsSystemCall(e) =>
                        j > 1 /\ (IsSystemCall(tr[j - 1]) \/ tr[j - 1].kind = "applyResource")
                  /\ (e.kind = "result" /\ e.target = "") => nextApplying
                  /\ (e.kind = "result" /\ e.target # "") =>
                        j < n /\ tr[j + 1] = LogError(e.id)
                  /\ e.kind = "error" =>
                        /\ j > 1 /\ tr[j - 1].kind = "result" /\ tr[j - 1].id = e.id
                        /\ tr[j - 1].target # ""
                        /\ LET fresh == {d \in CatIds : DependsOn(d, e.id)}
                                            \ SkippedBefore(tr, j)
                           IN  IF fresh # {}
                               THEN j < n /\ tr[j + 1] = Skipping(e.id, SetToSeq(fresh))
                               ELSE nextApplying
                  /\ e.kind = "skipping" =>
                        /\ j > 1 /\ tr[j - 1] = LogError(e.id)
                        /\ e.ids # <<>>
                        /\ nextApplying

C17_Witness ==
    /\ Returned
    /\ \E r, s, t \in CatIds : \E j \in DOMAIN last.trace :
          /\ j + 5 <= Len(last.trace)
          /\ last.trace[j] = Applying(r)
          /\ last.trace[j + 1] = Executing(r)
          /\ last.trace[j + 2].kind = "Run"
          /\ last.trace[j + 3].kind = "result" /\ last.trace[j + 3].target # ""
          /\ last.trace[j + 4] = LogError(r)
          /\ last.trace[j + 5] = Skipping(r, <<s>>)
          /\ j + 6 <= Len(last.trace) /\ last.trace[j + 6] = Applying(t)

----------------------------------------------------------------------------
\* The number of nodes of gr that are not yet done, failed or skipped.
Pending(gr) == Cardinality(StatusOf(gr, "pending"))

\* C18: Apply terminates for every well-formed catalog when each System call
\* returns.  A pass of the loop returns or takes at least one node out of
\* pending (the one it applies, and on failure its descendants), so there
\* are at most as many passes as resources, and an Apply that has entered
\* the loop returns: the applier is idle again and again.
C18_ApplyTerminates ==
    /\ [](pc = "loop" => Len(AppliedIn(trace)) + Pending(g) <= Len(catalog))
    /\ [][(pc = "loop" /\ ~Done(g) /\ ~cancelled') =>
              (pc' = "idle" \/ Pending(g') < Pending(g))]_vars
    /\ []<>(pc = "idle")

C18_Witness ==
    /\ Returned
    /\ last.ret = "notclean"
    /\ Len(catalog) >= 2
    /\ Done(last.g)
    /\ Len(AppliedIn(last.trace)) = 1
    /\ StatusOf(last.g, "failed") # {}
    /\ StatusOf(last.g, "skipped") # {}
    /\ runs = MaxRuns

----------------------------------------------------------------------------
\* C19: cancellation is observed only while a node is pending.  When the
\* context is cancelled and every node is done, failed or skipped (the last
\* resource has been applied, or the catalog is empty), the loop exits
\* through Done() and Apply returns its ordinary result, nil or "not all
\* resources applied cleanly"; an Apply that returns the cancellation error
\* leaves a pending node.
C19_CancelAfterDoneIgnored ==
    /\ []((Returned /\ last.ret = "cancelled") => Pending(last.g) > 0)
    /\ [][(pc = "loop" /\ Done(g) /\ cancelled) =>
              /\ pc' = "idle"
              /\ last'.ret = IF StatusOf(g, "failed") = {} THEN "nil" ELSE "notclean"
              /\ last'.trace = trace
              /\ last'.g = g
              /\ fs' = fs]_vars

C19_Witness ==
    /\ pc = "loop"
    /\ cancelled
    /\ Done(g)
    /\ Len(catalog) >= 2
    /\ StatusOf(g, "failed") # {}
    /\ StatusOf(g, "done") # {}
    /\ Len(AppliedIn(trace)) = Len(catalog)

----------------------------------------------------------------------------
\* C20: the symlink executor never removes an entry that is not a symlink.
\* Remove(path) comes only after Symlink, Lstat and Readlink, with a symlink
\* to another target at path.  With a regular file or a directory at path
\* the resource fails, the entry stays, and there is no Remove and no second
\* Symlink call.
C20_SymlinkRemovesOnlyLinks ==
    [][AppliesSymlink =>
          LET k == Kinds(NewCalls)
          IN  /\ \A i \in DOMAIN k : k[i] = "Remove" =>
                    /\ SubSeq(k, 1, i) = <<"Symlink", "Lstat", "Readlink", "Remove">>
                    /\ fs.ent.kind = "symlink"
                    /\ fs.ent.target # NewTarget
              /\ fs'.ent # fs.ent => fs.ent.kind \in {"absent", "symlink"}
              /\ fs.ent.kind \in {"file", "dir"} =>
                    /\ NewErr # ""
                    /\ g'.status[NewId] = "failed"
                    /\ fs' = fs
                    /\ \A i \in DOMAIN k : k[i] # "Remove"
                    /\ Cardinality({i \in DOMAIN k : k[i] = "Symlink"}) = 1]_vars

C20_Witness ==
    /\ Returned
    /\ Len(catalog) = 1
    /\ IsSymlinkBody(catalog[1].body)
    /\ last.fs0.ent = Entry("dir", "")
    /\ ~last.fs0.ro
    /\ Kinds(SysCallsOf(last.trace)) = <<"Symlink", "Lstat">>
    /\ last.ret = "notclean"
    /\ last.fs = last.fs0

====
